---- MODULE Spec2Model ----
(***************************************************************************)
(* Model of the two SageMaker deployment scripts                           *)
(*   src/deploy-sagemaker-model.py     (script 1)                          *)
(*   src/scripts/deploy-sagemaker.py   (script 2)                          *)
(* One run of a script is a walk of pc through the provider calls of the   *)
(* operation selected by the command line.  Every provider call either     *)
(* succeeds or raises; the provider (IAM role, endpoints) persists between *)
(* runs, everything else is reset by NewRun.                               *)
(***************************************************************************)
EXTENDS Integers, Sequences, FiniteSets, TLC

VARIABLES pc, script, args, path, calls, out, role, predictor, i, ret,
          raised, iamRole, endpoints

vars == <<pc, script, args, path, calls, out, role, predictor, i, ret,
          raised, iamRole, endpoints>>

run == <<script, args, path>>
provider == <<iamRole, endpoints>>

(* ---------------------------------------------------------------- values *)

None == "<None>"

RoleName == "SageMakerTravelAssistantRole"
TrustPrincipal == "sagemaker.amazonaws.com"
TrustAction == "sts:AssumeRole"
PolicyArn == "arn:aws:iam::aws:policy/AmazonSageMakerFullAccess"
ModelId1 == "facebook/blenderbot-400M-distill"
ModelId2 == "microsoft/DialoGPT-large"
TestPayload == "Hello! I want to plan a trip to Japan."
DefaultInstanceType == "ml.t2.medium"
DefaultEndpointName == "travel-assistant-endpoint"
ServerlessMemory == 4096
ServerlessConcurrency == 10
InstanceCount == 1

test_queries ==
    << "Plan a 3-day itinerary for Paris",
       "What are the best travel tips for Japan?",
       "Recommend activities for a family vacation in Orlando" >>

\* the values the inputs and the provider's answers are drawn from
Arns == { "arn:aws:iam::111111111111:role/SageMakerTravelAssistantRole",
          "arn:aws:iam::222222222222:role/SageMakerTravelAssistantRole" }
EndpointNames == { DefaultEndpointName, "demo-ep" }
InstanceTypes == { DefaultInstanceType, "ml.g4dn.xlarge" }
Statuses == { "InService", "Creating", "Failed" }
DeleteArgs == { None, "" } \cup EndpointNames
Actions == { "deploy", "status", "test", "cleanup" }

\* exceptions a provider call can raise: botocore ClientError (by error
\* code) and exceptions that are not ClientError (connection, credentials)
ClientError(code, msg) == [cls |-> "ClientError", code |-> code, msg |-> msg]
BotoCoreError == [cls |-> "BotoCoreError", code |-> "EndpointConnectionError",
                  msg |-> "Could not connect to the endpoint URL"]
Throttling == ClientError("ThrottlingException", "Rate exceeded")
AccessDenied == ClientError("AccessDeniedException", "not authorized")
NoSuchEntity == ClientError("NoSuchEntity", "The role cannot be found")
NotFound == ClientError("ValidationException", "Could not find endpoint")
NoExc == [cls |-> "", code |-> "", msg |-> ""]
Failures == { Throttling, AccessDenied, BotoCoreError }

\* str(e): botocore renders a ClientError as
\* "An error occurred (<code>) when calling the <op> operation: <msg>"
StrE(e) ==
    IF e.cls = "ClientError"
    THEN << "An error occurred (", e.code, ") when calling the operation: ", e.msg >>
    ELSE << e.msg >>

\* 'ValidationException' in str(e)
HasValidationException(e) ==
    \E k \in 1..Len(StrE(e)) : StrE(e)[k] = "ValidationException"

\* truth value of an optional string (None and '' are false)
Truthy(s) == s # None /\ s # ""

(* ----------------------------------------------------------------- calls *)

NoCall == [api |-> "", name |-> "", principal |-> "", action |-> "",
           policy |-> "", model |-> "", instance_type |-> "",
           initial_instance_count |-> 0, memory_size_in_mb |-> 0,
           max_concurrency |-> 0, payload |-> << >>, raises |-> NoExc]

Api(a, n) == [NoCall EXCEPT !.api = a, !.name = n]

Msg(m, a) == [msg |-> m, arg |-> a]

NoArgs == [list |-> FALSE, delete |-> None, serverless |-> FALSE,
           instance_type |-> "", endpoint_name |-> "", action |-> "",
           endpoint |-> ""]

Printed(m) == \E k \in 1..Len(out) : out[k].msg = m
Called(a) == \E k \in 1..Len(calls) : calls[k].api = a
Count(a) == Cardinality({ k \in 1..Len(calls) : calls[k].api = a })
Init ==
    /\ pc = "start"
    /\ script = 0
    /\ args = NoArgs
    /\ path = << >>
    /\ calls = << >>
    /\ out = << >>
    /\ role = None
    /\ predictor = None
    /\ i = 0
    /\ ret = None
    /\ raised = FALSE
    /\ iamRole \in Arns \cup { None }
    /\ endpoints \in [EndpointNames -> Statuses \cup { None }]

(* -------------------------------------------- script 1: __main__ dispatch *)

\* the operation selected by the if/elif chain of __main__
Dispatch1(a) ==
    IF a.list THEN "list_endpoints"
    ELSE IF Truthy(a.delete) THEN "delete_endpoint"
    ELSE IF a.serverless THEN "deploy_serverless"
    ELSE "deploy_model"

EntryPc(o) ==
    CASE o = "list_endpoints" -> "le_client"
      [] o = "delete_endpoint" -> "de_client"
      [] o = "deploy_serverless" -> "iam_client"
      [] o = "deploy_model" -> "iam_client"

Main1 ==
    /\ pc = "start"
    /\ \E l \in BOOLEAN, d \in DeleteArgs, s \in BOOLEAN,
          t \in InstanceTypes, n \in EndpointNames :
          /\ args' = [NoArgs EXCEPT !.list = l, !.delete = d, !.serverless = s,
                                    !.instance_type = t, !.endpoint_name = n]
          /\ path' = << Dispatch1(args') >>
          /\ pc' = EntryPc(Dispatch1(args'))
    /\ script' = 1
    /\ UNCHANGED <<calls, out, role, predictor, i, ret, raised, provider>>

Say(ms) == out' = out \o ms

\* the call c is issued and returns / is issued and raises e
Ok(c) == calls' = Append(calls, c)
Raises(c, e) == calls' = Append(calls, [c EXCEPT !.raises = e])

\* the operation returns normally with value v
Return(v) == pc' = "done" /\ ret' = v

(* ------------------------------------------ script 1: get_execution_role *)

\* where the caller of get_execution_role goes on with the role
AfterRole == IF path[1] = "deploy_serverless" THEN "ds_model" ELSE "dm_model"

\* except Exception in get_execution_role prints and re-raises; the caller
\* (deploy_model, deploy_serverless) prints and returns
RoleFailed ==
    /\ Say(<< Msg("error_iam_role", ""), Msg("failed_get_role", "") >>)
    /\ Return(None)

IamClient ==
    /\ pc = "iam_client"
    /\ \/ /\ Ok(Api("boto3.client", "iam"))
          /\ pc' = "get_role"
          /\ UNCHANGED <<out, ret>>
       \/ \E e \in Failures :
          /\ Raises(Api("boto3.client", "iam"), e)
          /\ RoleFailed
    /\ UNCHANGED <<run, role, predictor, i, raised, provider>>

\* faulty variant: a found role is created all the same
GetRoleNext_AlwaysCreate(found) == "create_role"

\* the branch taken on the answer of iam.get_role
GetRoleNext(found) == IF found THEN AfterRole ELSE "create_role"

GetRole ==
    /\ pc = "get_role"
    /\ \/ /\ iamRole # None
          /\ Ok(Api("get_role", RoleName))
          /\ role' = iamRole
          /\ Say(<< Msg("using_existing_role", iamRole) >>)
          /\ pc' = GetRoleNext(TRUE)
          /\ UNCHANGED ret
       \/ /\ iamRole = None
          /\ Raises(Api("get_role", RoleName), NoSuchEntity)
          /\ Say(<< Msg("creating_role", RoleName) >>)
          /\ pc' = GetRoleNext(FALSE)
          /\ UNCHANGED <<role, ret>>
       \/ \E e \in Failures :
          /\ Raises(Api("get_role", RoleName), e)
          /\ RoleFailed
          /\ UNCHANGED role
    /\ UNCHANGED <<run, predictor, i, raised, provider>>

CreateRoleCall ==
    [Api("create_role", RoleName) EXCEPT !.principal = TrustPrincipal,
                                         !.action = TrustAction]

\* faulty variant: the policy is never attached
AfterCreateRole_SkipAttach == AfterRole

\* where get_execution_role goes after iam.create_role returned
AfterCreateRole == "attach_role_policy"

CreateRole ==
    /\ pc = "create_role"
    /\ \/ /\ iamRole = None
          /\ Ok(CreateRoleCall)
          /\ \E arn \in Arns : iamRole' = arn /\ role' = arn
          /\ pc' = AfterCreateRole
          /\ UNCHANGED <<out, ret>>
       \/ \E e \in Failures :
          /\ Raises(CreateRoleCall, e)
          /\ RoleFailed
          /\ UNCHANGED <<role, iamRole>>
    /\ UNCHANGED <<run, predictor, i, raised, endpoints>>

AttachRolePolicyCall ==
    [Api("attach_role_policy", RoleName) EXCEPT !.policy = PolicyArn]

AttachRolePolicy ==
    /\ pc = "attach_role_policy"
    /\ \/ /\ Ok(AttachRolePolicyCall)
          /\ Say(<< Msg("waiting_for_role", ""), Msg("created_role", role) >>)
          /\ pc' = AfterRole
          /\ UNCHANGED ret
       \/ \E e \in Failures :
          /\ Raises(AttachRolePolicyCall, e)
          /\ RoleFailed
    /\ UNCHANGED <<run, role, predictor, i, raised, provider>>

(* ------------------------------------------------ script 1: deploy_model *)

HuggingFaceModelCall(m) == [Api("HuggingFaceModel", "") EXCEPT !.model = m]

\* what a failed deploy may leave behind at the provider
DeployLeftovers(n) ==
    { endpoints } \cup
    (IF endpoints[n] = None THEN { [endpoints EXCEPT ![n] = "Failed"] } ELSE { })

DmModel ==
    /\ pc = "dm_model"
    /\ \/ /\ Ok(HuggingFaceModelCall(ModelId1))
          /\ Say(<< Msg("model_config_created", "") >>)
          /\ pc' = "dm_deploy"
          /\ UNCHANGED ret
       \/ \E e \in Failures :
          /\ Raises(HuggingFaceModelCall(ModelId1), e)
          /\ Say(<< Msg("failed_create_model", "") >>)
          /\ Return(None)
    /\ UNCHANGED <<run, role, predictor, i, raised, provider>>

\* faulty variant: the instance type of the command line is dropped for the default
DeployModelCall_DefaultType(instance_type, endpoint_name) ==
    [Api("deploy", endpoint_name) EXCEPT !.instance_type = DefaultInstanceType,
                                         !.initial_instance_count = InstanceCount]

\* huggingface_model.deploy(initial_instance_count=1, instance_type=...,
\*                          endpoint_name=...)
DeployModelCall(instance_type, endpoint_name) ==
    [Api("deploy", endpoint_name) EXCEPT !.instance_type = instance_type,
                                         !.initial_instance_count = InstanceCount]

DmDeploy ==
    /\ pc = "dm_deploy"
    /\ \/ /\ endpoints[args.endpoint_name] = None
          /\ Ok(DeployModelCall(args.instance_type, args.endpoint_name))
          /\ endpoints' = [endpoints EXCEPT ![args.endpoint_name] = "InService"]
          /\ predictor' = args.endpoint_name
          /\ Say(<< Msg("deployment_successful", args.endpoint_name) >>)
          /\ pc' = "dm_predict"
          /\ UNCHANGED ret
       \/ \E e \in Failures :
          /\ Raises(DeployModelCall(args.instance_type, args.endpoint_name), e)
          /\ Say(<< Msg("deployment_failed", "") >>)
          /\ endpoints' \in DeployLeftovers(args.endpoint_name)
          /\ Return(None)
          /\ UNCHANGED predictor
    /\ UNCHANGED <<run, role, i, raised, iamRole>>

PredictCall(n, payload) == [Api("predict", n) EXCEPT !.payload = payload]

\* predictor.predict(test_payload) shares the try block of the deploy call
DmPredict ==
    /\ pc = "dm_predict"
    /\ \/ /\ endpoints[predictor] = "InService"
          /\ Ok(PredictCall(predictor, << TestPayload >>))
          /\ Say(<< Msg("test_response", ""),
                    Msg("estimated_cost", args.instance_type) >>)
       \/ \E e \in Failures :
          /\ Raises(PredictCall(predictor, << TestPayload >>), e)
          /\ Say(<< Msg("deployment_failed", "") >>)
    /\ Return(None)
    /\ UNCHANGED <<run, role, predictor, i, raised, provider>>

(* ------------------------------------------- script 1: deploy_serverless *)

DsModel ==
    /\ pc = "ds_model"
    /\ \/ /\ Ok(HuggingFaceModelCall(ModelId1))
          /\ pc' = "ds_deploy"
          /\ UNCHANGED <<out, ret>>
       \/ \E e \in Failures :
          /\ Raises(HuggingFaceModelCall(ModelId1), e)
          /\ Say(<< Msg("serverless_failed", "") >>)
          /\ Return(None)
    /\ UNCHANGED <<run, role, predictor, i, raised, provider>>

\* faulty variant: the serverless deploy also names an instance type and count
DeployServerlessCall_Both(endpoint_name) ==
    [Api("deploy", endpoint_name) EXCEPT !.memory_size_in_mb = ServerlessMemory,
                                         !.max_concurrency = ServerlessConcurrency,
                                         !.instance_type = DefaultInstanceType,
                                         !.initial_instance_count = InstanceCount]

\* huggingface_model.deploy(serverless_inference_config=
\*     ServerlessInferenceConfig(memory_size_in_mb=4096, max_concurrency=10),
\*     endpoint_name=...)
DeployServerlessCall(endpoint_name) ==
    [Api("deploy", endpoint_name) EXCEPT !.memory_size_in_mb = ServerlessMemory,
                                         !.max_concurrency = ServerlessConcurrency]

DsDeploy ==
    /\ pc = "ds_deploy"
    /\ \/ /\ endpoints[args.endpoint_name] = None
          /\ Ok(DeployServerlessCall(args.endpoint_name))
          /\ endpoints' = [endpoints EXCEPT ![args.endpoint_name] = "InService"]
          /\ predictor' = args.endpoint_name
          /\ Say(<< Msg("serverless_successful", args.endpoint_name) >>)
       \/ \E e \in Failures :
          /\ Raises(DeployServerlessCall(args.endpoint_name), e)
          /\ Say(<< Msg("serverless_failed", "") >>)
          /\ endpoints' \in DeployLeftovers(args.endpoint_name)
          /\ UNCHANGED predictor
    /\ Return(None)
    /\ UNCHANGED <<run, role, i, raised, iamRole>>

(* ---------------------------------------------- script 1: list_endpoints *)

LeClient ==
    /\ pc = "le_client"
    /\ \/ /\ Ok(Api("boto3.client", "sagemaker"))
          /\ pc' = "le_list"
          /\ UNCHANGED <<out, ret>>
       \/ \E e \in Failures :
          /\ Raises(Api("boto3.client", "sagemaker"), e)
          /\ Say(<< Msg("error_listing", "") >>)
          /\ Return(None)
    /\ UNCHANGED <<run, role, predictor, i, raised, provider>>

LeList ==
    /\ pc = "le_list"
    /\ \/ /\ Ok(Api("list_endpoints", ""))
          /\ IF \A n \in EndpointNames : endpoints[n] = None
             THEN Say(<< Msg("no_endpoints", "") >>)
             ELSE Say(<< Msg("endpoints_listed", "") >>)
       \/ \E e \in Failures :
          /\ Raises(Api("list_endpoints", ""), e)
          /\ Say(<< Msg("error_listing", "") >>)
    /\ Return(None)
    /\ UNCHANGED <<run, role, predictor, i, raised, provider>>

(* --------------------------------------------- script 1: delete_endpoint *)

\* faulty variant: the configuration is never deleted
AfterDeleteEndpoint_NoConfig(ok, cfg) == "done"

\* where a delete operation goes after its delete_endpoint call: on to the
\* configuration (pc cfg) when the call returned, to the outer handler when
\* it raised
AfterDeleteEndpoint(ok, cfg) == IF ok THEN cfg ELSE "done"

\* the answers the provider gives to delete_endpoint / describe_endpoint for
\* an endpoint it does not have
Missing(n) == IF endpoints[n] = None THEN { NotFound } ELSE { }

DeClient ==
    /\ pc = "de_client"
    /\ \/ /\ Ok(Api("boto3.client", "sagemaker"))
          /\ pc' = "de_delete"
          /\ UNCHANGED <<out, ret>>
       \/ \E e \in Failures :
          /\ Raises(Api("boto3.client", "sagemaker"), e)
          /\ Say(<< Msg("error_deleting", "") >>)
          /\ Return(None)
    /\ UNCHANGED <<run, role, predictor, i, raised, provider>>

DeDelete ==
    /\ pc = "de_delete"
    /\ \/ /\ endpoints[args.delete] # None
          /\ Ok(Api("delete_endpoint", args.delete))
          /\ endpoints' = [endpoints EXCEPT ![args.delete] = None]
          /\ Say(<< Msg("deleting_endpoint", args.delete),
                    Msg("endpoint_deleted", "") >>)
          /\ pc' = AfterDeleteEndpoint(TRUE, "de_config")
          /\ UNCHANGED ret
       \/ \E e \in Failures \cup Missing(args.delete) :
          /\ Raises(Api("delete_endpoint", args.delete), e)
          /\ Say(<< Msg("deleting_endpoint", args.delete),
                    Msg("error_deleting", "") >>)
          /\ pc' = AfterDeleteEndpoint(FALSE, "de_config")
          /\ ret' = None
          /\ UNCHANGED endpoints
    /\ UNCHANGED <<run, role, predictor, i, raised, iamRole>>

\* the inner try of delete_endpoint: a bare except that passes
DeConfig ==
    /\ pc = "de_config"
    /\ \/ /\ Ok(Api("delete_endpoint_config", args.delete))
          /\ Say(<< Msg("config_deleted", "") >>)
       \/ \E e \in Failures :
          /\ Raises(Api("delete_endpoint_config", args.delete), e)
          /\ UNCHANGED out
    /\ Return(None)
    /\ UNCHANGED <<run, role, predictor, i, raised, provider>>

(* ------------------------------------------------- script 2: main dispatch *)

Dispatch2(a) ==
    CASE a.action = "deploy" -> "deploy_travel_model"
      [] a.action = "status" -> "check_endpoint_status"
      [] a.action = "test" -> "test_model"
      [] a.action = "cleanup" -> "cleanup_endpoint"

EntryPc2(o) ==
    CASE o = "deploy_travel_model" -> "dt_role"
      [] o = "check_endpoint_status" -> "cs_client"
      [] o = "test_model" -> "t_predictor"
      [] o = "cleanup_endpoint" -> "ce_client"

Main2 ==
    /\ pc = "start"
    /\ \E a \in Actions, n \in EndpointNames :
          /\ args' = [NoArgs EXCEPT !.action = a, !.endpoint = n]
          /\ path' = << Dispatch2(args') >>
          /\ pc' = EntryPc2(Dispatch2(args'))
    /\ script' = 2
    /\ UNCHANGED <<calls, out, role, predictor, i, ret, raised, provider>>

\* an exception no handler catches leaves the operation and ends the process
Propagate == pc' = "done" /\ raised' = TRUE

(* ----------------------------------------- script 2: deploy_travel_model *)

DtRole ==
    /\ pc = "dt_role"
    /\ \/ /\ Ok(Api("get_execution_role", ""))
          /\ \E arn \in Arns : role' = arn /\ Say(<< Msg("using_role", arn) >>)
          /\ pc' = "dt_model"
          /\ UNCHANGED ret
       \/ \E e \in Failures :
          /\ Raises(Api("get_execution_role", ""), e)
          /\ Say(<< Msg("error_role", "") >>)
          /\ Return(None)
          /\ UNCHANGED role
    /\ UNCHANGED <<run, predictor, i, raised, provider>>

\* HuggingFaceModel(...) and ServerlessInferenceConfig(...) stand outside
\* every try block of deploy_travel_model
DtModel ==
    /\ pc = "dt_model"
    /\ \/ /\ Ok(HuggingFaceModelCall(ModelId2))
          /\ pc' = "dt_deploy"
          /\ UNCHANGED raised
       \/ \E e \in Failures :
          /\ Raises(HuggingFaceModelCall(ModelId2), e)
          /\ Propagate
    /\ UNCHANGED <<run, out, role, predictor, i, ret, provider>>

DtDeploy ==
    /\ pc = "dt_deploy"
    /\ \/ /\ endpoints[DefaultEndpointName] = None
          /\ Ok(DeployServerlessCall(DefaultEndpointName))
          /\ endpoints' = [endpoints EXCEPT ![DefaultEndpointName] = "InService"]
          /\ predictor' = DefaultEndpointName
          /\ Say(<< Msg("model_deployed", DefaultEndpointName),
                    Msg("testing_model", "") >>)
          /\ pc' = "tm_predict"
          /\ i' = 1
          /\ UNCHANGED ret
       \/ \E e \in Failures :
          /\ Raises(DeployServerlessCall(DefaultEndpointName), e)
          /\ Say(<< Msg("deployment_failed", "") >>)
          /\ endpoints' \in DeployLeftovers(DefaultEndpointName)
          /\ Return(None)
          /\ UNCHANGED <<predictor, i>>
    /\ UNCHANGED <<run, role, raised, iamRole>>

(* -------------------------------------------------- script 2: test_model *)

PromptPrefix == "You are a helpful travel assistant. "

\* faulty variant: the first failing prompt ends the loop
NextPrompt_AbortOnFailure(k, failed) ==
    IF failed THEN Len(test_queries) + 1 ELSE k + 1

\* the index of the prompt test_model turns to after prompt k
NextPrompt(k, failed) == k + 1

\* leaving the for loop: test_model returns None; deploy_travel_model then
\* returns predictor.endpoint_name and main prints the completion message
AfterLoop ==
    IF path[1] = "deploy_travel_model"
    THEN << predictor, << Msg("deployment_complete", predictor) >> >>
    ELSE << None, << >> >>

TmPredict ==
    /\ pc = "tm_predict"
    /\ i \in 1..Len(test_queries)
    /\ LET call == PredictCall(predictor, << PromptPrefix, test_queries[i] >>)
           step(failed, ms) ==
               /\ i' = NextPrompt(i, failed)
               /\ IF i' > Len(test_queries)
                  THEN /\ Say(ms \o AfterLoop[2])
                       /\ Return(AfterLoop[1])
                  ELSE /\ Say(ms)
                       /\ UNCHANGED <<pc, ret>>
       IN  \/ /\ endpoints[predictor] = "InService"
              /\ Ok(call)
              /\ step(FALSE, << Msg("test", test_queries[i]), Msg("response", "") >>)
           \/ /\ endpoints[predictor] = "InService"   \* response[0].get(...) raises
              /\ Ok(call)
              /\ step(TRUE, << Msg("test", test_queries[i]),
                               Msg("test_failed", test_queries[i]) >>)
           \/ \E e \in Failures \cup Missing(predictor) :
              /\ Raises(call, e)
              /\ step(TRUE, << Msg("test", test_queries[i]),
                               Msg("test_failed", test_queries[i]) >>)
    /\ UNCHANGED <<run, role, predictor, raised, provider>>

\* the 'test' branch of main: Predictor(endpoint_name=args.endpoint,
\* sagemaker_session=sagemaker.Session()) stands outside every try block
TestPredictor ==
    /\ pc = "t_predictor"
    /\ \/ /\ Ok(Api("Predictor", args.endpoint))
          /\ predictor' = args.endpoint
          /\ Say(<< Msg("testing_model", "") >>)
          /\ pc' = "tm_predict"
          /\ i' = 1
          /\ UNCHANGED raised
       \/ \E e \in Failures :
          /\ Raises(Api("Predictor", args.endpoint), e)
          /\ Propagate
          /\ UNCHANGED <<out, predictor, i>>
    /\ UNCHANGED <<run, role, ret, provider>>

(* --------------------------------------- script 2: check_endpoint_status *)

CsClient ==
    /\ pc = "cs_client"
    /\ \/ /\ Ok(Api("boto3.client", "sagemaker"))
          /\ pc' = "cs_describe"
          /\ UNCHANGED raised
       \/ \E e \in Failures :
          /\ Raises(Api("boto3.client", "sagemaker"), e)
          /\ Propagate
    /\ UNCHANGED <<run, out, role, predictor, i, ret, provider>>

\* the informational line printed for a status
StatusLine(status) ==
    IF status = "InService" THEN Msg("ready", "")
    ELSE IF status \in { "Creating", "Updating" } THEN Msg("being_deployed", "")
    ELSE Msg("status_other", status)

\* faulty variant: every ClientError gets the generic line
ErrorLine_Generic(e, endpoint_name) == Msg("error_checking", "")

\* the line printed by the except client.exceptions.ClientError handler
ErrorLine(e, endpoint_name) ==
    IF HasValidationException(e)
    THEN Msg("not_found", endpoint_name)
    ELSE Msg("error_checking", "")

\* except client.exceptions.ClientError: the classes the handler catches
Caught(e) == e.cls = "ClientError"

CsDescribe ==
    /\ pc = "cs_describe"
    /\ \/ /\ endpoints[args.endpoint] # None
          /\ Ok(Api("describe_endpoint", args.endpoint))
          /\ Say(<< Msg("status", endpoints[args.endpoint]),
                    StatusLine(endpoints[args.endpoint]) >>)
          /\ Return(endpoints[args.endpoint])
          /\ UNCHANGED raised
       \/ \E e \in Failures \cup Missing(args.endpoint) :
          /\ Raises(Api("describe_endpoint", args.endpoint), e)
          /\ IF Caught(e)
             THEN /\ Say(<< ErrorLine(e, args.endpoint) >>)
                  /\ Return(None)
                  /\ UNCHANGED raised
             ELSE /\ Propagate
                  /\ UNCHANGED <<out, ret>>
    /\ UNCHANGED <<run, role, predictor, i, provider>>

(* -------------------------------------------- script 2: cleanup_endpoint *)

CeClient ==
    /\ pc = "ce_client"
    /\ \/ /\ Ok(Api("boto3.client", "sagemaker"))
          /\ pc' = "ce_delete"
          /\ UNCHANGED raised
       \/ \E e \in Failures :
          /\ Raises(Api("boto3.client", "sagemaker"), e)
          /\ Propagate
    /\ UNCHANGED <<run, out, role, predictor, i, ret, provider>>

CeDelete ==
    /\ pc = "ce_delete"
    /\ \/ /\ endpoints[args.endpoint] # None
          /\ Ok(Api("delete_endpoint", args.endpoint))
          /\ endpoints' = [endpoints EXCEPT ![args.endpoint] = None]
          /\ Say(<< Msg("deleting_endpoint", args.endpoint),
                    Msg("deletion_initiated", "") >>)
          /\ pc' = AfterDeleteEndpoint(TRUE, "ce_config")
          /\ UNCHANGED ret
       \/ \E e \in Failures \cup Missing(args.endpoint) :
          /\ Raises(Api("delete_endpoint", args.endpoint), e)
          /\ Say(<< Msg("deleting_endpoint", args.endpoint),
                    Msg("error_deleting", "") >>)
          /\ pc' = AfterDeleteEndpoint(FALSE, "ce_config")
          /\ ret' = None
          /\ UNCHANGED endpoints
    /\ UNCHANGED <<run, role, predictor, i, raised, iamRole>>

CeConfig ==
    /\ pc = "ce_config"
    /\ \/ /\ Ok(Api("delete_endpoint_config", args.endpoint))
          /\ Say(<< Msg("config_deleted", "") >>)
       \/ \E e \in Failures :
          /\ Raises(Api("delete_endpoint_config", args.endpoint), e)
          /\ UNCHANGED out
    /\ Return(None)
    /\ UNCHANGED <<run, role, predictor, i, raised, provider>>

(* ------------------------------------------------------------- processes *)

\* the process ends; the next invocation starts cold, the provider keeps
\* its state
NewRun ==
    /\ pc = "done"
    /\ pc' = "start"
    /\ script' = 0
    /\ args' = NoArgs
    /\ path' = << >>
    /\ calls' = << >>
    /\ out' = << >>
    /\ role' = None
    /\ predictor' = None
    /\ i' = 0
    /\ ret' = None
    /\ raised' = FALSE
    /\ UNCHANGED provider

Next ==
    \/ Main1 \/ IamClient \/ GetRole \/ CreateRole \/ AttachRolePolicy
    \/ DmModel \/ DmDeploy \/ DmPredict \/ DsModel \/ DsDeploy
    \/ LeClient \/ LeList \/ DeClient \/ DeDelete \/ DeConfig
    \/ Main2 \/ DtRole \/ DtModel \/ DtDeploy \/ TmPredict \/ TestPredictor
    \/ CsClient \/ CsDescribe \/ CeClient \/ CeDelete \/ CeConfig
    \/ NewRun

Spec == Init /\ [][Next]_vars

(* ---------------------------------------------------------------- claims *)

Idx == 1..Len(calls)
Is(k, a) == k \in Idx /\ calls[k].api = a
Returned(k) == calls[k].raises = NoExc
Failed(k) == calls[k].raises # NoExc

\* C1 (as amended): in get_execution_role, whenever get_role signals
\* NoSuchEntity the next call is create_role for the fixed role name with the
\* trust principal sagemaker.amazonaws.com and action sts:AssumeRole, and it
\* is the only create_role of the run; when create_role returns, the next
\* call is attach_role_policy with the AmazonSageMakerFullAccess ARN, issued
\* once; when create_role raises, no attach_role_policy is issued; the ARN is
\* returned only after both calls returned.
C1_CreateThenAttach ==
    \A k \in Idx :
        (Is(k, "get_role") /\ calls[k].raises = NoSuchEntity) =>
            /\ Count("create_role") <= 1
            /\ pc # "create_role" =>
                   /\ Len(calls) >= k + 1
                   /\ calls[k + 1].api = "create_role"
                   /\ calls[k + 1].name = RoleName
                   /\ calls[k + 1].principal = TrustPrincipal
                   /\ calls[k + 1].action = TrustAction
                   /\ Count("create_role") = 1
            /\ (Len(calls) >= k + 1 /\ Returned(k + 1) /\ pc # "attach_role_policy") =>
                   /\ Len(calls) >= k + 2
                   /\ calls[k + 2].api = "attach_role_policy"
                   /\ calls[k + 2].name = RoleName
                   /\ calls[k + 2].policy = PolicyArn
                   /\ Count("attach_role_policy") = 1
            /\ (Len(calls) >= k + 1 /\ Failed(k + 1)) =>
                   /\ Count("attach_role_policy") = 0
                   /\ pc = "done"
            /\ (Printed("created_role") \/ pc \in { "dm_model", "ds_model" }) =>
                   /\ Len(calls) >= k + 2
                   /\ Returned(k + 1)
                   /\ Returned(k + 2)
                   /\ role = iamRole

\* C1 witness: a run that found no role, created it, attached the policy and
\* returned the ARN
C1_Witness ==
    /\ pc = "done"
    /\ \E k \in Idx : Is(k, "get_role") /\ calls[k].raises = NoSuchEntity
    /\ Printed("created_role")
    /\ Count("create_role") = 1
    /\ Count("attach_role_policy") = 1

\* C1 as stated: whenever get_role signals NoSuchEntity, a create_role call
\* follows and then an attach_role_policy call, create_role exactly once
C1_Original ==
    \A k \in Idx :
        (pc = "done" /\ Is(k, "get_role") /\ calls[k].raises = NoSuchEntity) =>
            /\ Is(k + 1, "create_role")
            /\ Count("create_role") = 1
            /\ Is(k + 2, "attach_role_policy")
            /\ calls[k + 2].policy = PolicyArn

\* C2: whenever the get_role lookup succeeds the run issues no create_role
\* and no attach_role_policy call and the role it goes on with is the ARN the
\* lookup reported; and once the provider has the role, no step of any run
\* issues a create_role call and the provider keeps the role.
C2_Step ==
    /\ \A k \in 1..Len(calls') :
           (calls'[k].api = "get_role" /\ calls'[k].raises = NoExc) =>
               /\ \A j \in 1..Len(calls') :
                      calls'[j].api \notin { "create_role", "attach_role_policy" }
               /\ role' = iamRole'
               /\ role' \in Arns
    /\ iamRole # None =>
           /\ iamRole' = iamRole
           /\ Len(calls') > Len(calls) => calls'[Len(calls')].api # "create_role"

C2_ReuseExistingRole == [][C2_Step]_vars

\* C2 witness: a finished run whose lookup succeeded
C2_Witness ==
    /\ pc = "done"
    /\ \E k \in Idx : Is(k, "get_role") /\ Returned(k)
    /\ Printed("using_existing_role")
    /\ Called("deploy")

ServerlessOnly(c) ==
    /\ c.memory_size_in_mb = ServerlessMemory
    /\ c.max_concurrency = ServerlessConcurrency
    /\ c.instance_type = ""
    /\ c.initial_instance_count = 0

InstanceOnly(c) ==
    /\ c.instance_type = args.instance_type
    /\ c.initial_instance_count = InstanceCount
    /\ c.memory_size_in_mb = 0
    /\ c.max_concurrency = 0

\* C3: in script 1 every deploy call of a run given --serverless carries only
\* the serverless variant (memory 4096, concurrency 10) and no instance type
\* or count; every deploy call of a run on the default path carries only the
\* instance variant (the given instance type, count 1); no deploy call carries
\* both or neither.
C3_HostingVariant ==
    script = 1 =>
        \A k \in Idx :
            Is(k, "deploy") =>
                /\ args.serverless => ServerlessOnly(calls[k]) /\ ~InstanceOnly(calls[k])
                /\ ~args.serverless => InstanceOnly(calls[k]) /\ ~ServerlessOnly(calls[k])
                /\ path[1] = (IF args.serverless THEN "deploy_serverless" ELSE "deploy_model")

\* C3 witness: a --serverless run of script 1 that has issued its deploy call
C3_Witness ==
    /\ script = 1
    /\ args.serverless
    /\ pc = "done"
    /\ \E k \in Idx : Is(k, "deploy") /\ Returned(k)

\* C4 (as amended): in delete_endpoint and cleanup_endpoint, whenever the
\* delete_endpoint call returns, the next call is delete_endpoint_config for
\* the same name; when delete_endpoint raises, no delete_endpoint_config call
\* is issued; a failure of delete_endpoint_config prints nothing and never
\* raises past the function, which returns None.
C4_ConfigAfterDelete ==
    \A k \in Idx :
        /\ (Is(k, "delete_endpoint") /\ Returned(k) /\ pc = "done") =>
               /\ Len(calls) = k + 1
               /\ calls[k + 1].api = "delete_endpoint_config"
               /\ calls[k + 1].name = calls[k].name
        /\ (Is(k, "delete_endpoint") /\ Failed(k)) =>
               /\ ~Called("delete_endpoint_config")
               /\ pc = "done"
        /\ Is(k, "delete_endpoint_config") =>
               /\ Is(k - 1, "delete_endpoint")
               /\ Returned(k - 1)
               /\ pc = "done"
               /\ ~raised
               /\ ret = None
               /\ Failed(k) => ~Printed("config_deleted") /\ ~Printed("error_deleting")

\* C4 witness: the endpoint was deleted, the deletion of its configuration
\* failed, and the function returned
C4_Witness ==
    /\ pc = "done"
    /\ \E k \in Idx : /\ Is(k, "delete_endpoint")
                      /\ Returned(k)
                      /\ Is(k + 1, "delete_endpoint_config")
                      /\ Failed(k + 1)
    /\ ~raised

\* C4 as stated: every invocation issues a delete_endpoint_config call for
\* the same name after the delete_endpoint call, whatever its outcome
C4_Original ==
    \A k \in Idx :
        (pc = "done" /\ Is(k, "delete_endpoint")) =>
            /\ Is(k + 1, "delete_endpoint_config")
            /\ calls[k + 1].name = calls[k].name
            /\ ~raised

\* C5 (as amended): check_endpoint_status, for an endpoint that does not
\* exist and whose describe_endpoint call is answered with the provider's
\* ValidationException ClientError, prints the "Endpoint '<name>' not found"
\* message and not the generic one and returns None without raising; for any
\* other ClientError it prints the generic "Error checking endpoint" message
\* and returns None; for an existing endpoint whose describe_endpoint call
\* returns, it returns the provider's status string unchanged.
C5_NotFoundMessage ==
    \A k \in Idx :
        (Is(k, "describe_endpoint") /\ pc = "done") =>
            /\ calls[k].raises = NotFound =>
                   /\ endpoints[args.endpoint] = None
                   /\ out = << Msg("not_found", args.endpoint) >>
                   /\ ret = None
                   /\ ~raised
            /\ (Failed(k) /\ calls[k].raises.cls = "ClientError"
                          /\ calls[k].raises # NotFound) =>
                   /\ out = << Msg("error_checking", "") >>
                   /\ ret = None
                   /\ ~raised
            /\ Returned(k) =>
                   /\ ret = endpoints[args.endpoint]
                   /\ ret \in Statuses
                   /\ out[1] = Msg("status", ret)
                   /\ ~raised

\* C5 witness: status was asked for an endpoint the provider does not have
\* and the provider said so
C5_Witness ==
    /\ pc = "done"
    /\ path = << "check_endpoint_status" >>
    /\ endpoints[args.endpoint] = None
    /\ \E k \in Idx : Is(k, "describe_endpoint") /\ calls[k].raises = NotFound
    /\ Printed("not_found")

\* C5 as stated, for the failures the handler of check_endpoint_status
\* catches: for every endpoint that does not exist (describe_endpoint fails)
\* the not-found message is printed, not the generic one, and None is returned
\* without raising
C5_Original ==
    \A k \in Idx :
        (pc = "done" /\ Is(k, "describe_endpoint") /\ Failed(k)
                     /\ Caught(calls[k].raises)
                     /\ endpoints[args.endpoint] = None) =>
            /\ Printed("not_found")
            /\ ~Printed("error_checking")
            /\ ret = None
            /\ ~raised

\* the calls that go to the provider's API (constructors left aside)
ProviderApis ==
    { "get_role", "create_role", "attach_role_policy", "get_execution_role",
      "deploy", "predict", "list_endpoints", "describe_endpoint",
      "delete_endpoint", "delete_endpoint_config" }

\* C6 as stated: whatever provider call of a top-level operation fails, and
\* however it fails, the operation returns normally and no exception
\* propagates out of the operation to the process
C6_NoExceptionEscapes ==
    \A k \in Idx :
        (calls[k].api \in ProviderApis /\ Failed(k) /\ pc = "done") => ~raised

\* C7 as stated: a run executes exactly one operation path; in script 1 it is
\* chosen by the precedence --list, --delete <name>, --serverless, instance
\* deploy, and a run with --list or --delete <name> issues no role, deploy or
\* inference call; in script 2 --action selects exactly one of the four
C7_OnePath ==
    pc # "start" =>
        /\ Len(path) = 1
        /\ script = 1 =>
               /\ path[1] = (IF args.list THEN "list_endpoints"
                             ELSE IF args.delete # None THEN "delete_endpoint"
                             ELSE IF args.serverless THEN "deploy_serverless"
                             ELSE "deploy_model")
               /\ (args.list \/ args.delete # None) =>
                      \A k \in Idx : calls[k].api \notin
                          { "get_role", "create_role", "attach_role_policy",
                            "HuggingFaceModel", "deploy", "predict" }
        /\ script = 2 => path[1] = Dispatch2(args)

\* C8: in deploy_model, when the role lookup succeeds and the deploy call
\* succeeds, the calls are get_role, the descriptor for model
\* facebook/blenderbot-400M-distill, deploy with exactly the endpoint name
\* and instance type of the command line and instance count 1, then exactly
\* one predict with the payload "Hello! I want to plan a trip to Japan.";
\* no predict of script 1 is sent before or without a successful deploy.
C8_DeployOrder ==
    script = 1 =>
        /\ \A k \in Idx :
               Is(k, "predict") =>
                   /\ Is(k - 1, "deploy")
                   /\ Returned(k - 1)
                   /\ Count("predict") = 1
                   /\ calls[k].payload = << TestPayload >>
                   /\ calls[k].name = calls[k - 1].name
        /\ (/\ pc = "done"
            /\ \E k \in Idx : Is(k, "get_role") /\ Returned(k)
            /\ \E k \in Idx : Is(k, "deploy") /\ Returned(k)
            /\ path = << "deploy_model" >>) =>
               /\ Len(calls) = 5
               /\ calls[2] = Api("get_role", RoleName)
               /\ calls[3] = [Api("HuggingFaceModel", "") EXCEPT !.model = ModelId1]
               /\ calls[4] = [Api("deploy", args.endpoint_name) EXCEPT
                                  !.instance_type = args.instance_type,
                                  !.initial_instance_count = 1]
               /\ calls[5].api = "predict"

\* C8 witness: the example scenario, a default-path run for endpoint demo-ep
\* with the role present, the deploy successful and the smoke test answered
C8_Witness ==
    /\ pc = "done"
    /\ path = << "deploy_model" >>
    /\ args.endpoint_name = "demo-ep"
    /\ args.instance_type = DefaultInstanceType
    /\ Printed("using_existing_role")
    /\ \E k \in Idx : Is(k, "predict") /\ Returned(k)

PredictIdx == { k \in Idx : calls[k].api = "predict" }
Rank(k) == Cardinality({ j \in PredictIdx : j <= k })

\* C9: in test_model of script 2, whichever of the three prompts fail, the
\* predict calls are issued one per prompt in list order, a failed prompt is
\* followed by the next one, and test_model returns normally after exactly
\* three predict calls.
C9_AllPromptsSent ==
    script = 2 =>
        /\ \A k \in PredictIdx :
               /\ Rank(k) <= Len(test_queries)
               /\ calls[k].payload = << PromptPrefix, test_queries[Rank(k)] >>
               /\ calls[k].name = predictor
               /\ (Rank(k) < Len(test_queries) /\ pc # "tm_predict") => k < Len(calls)
               /\ k < Len(calls) => Is(k + 1, "predict")
        /\ (pc = "done" /\ PredictIdx # { }) =>
               /\ Cardinality(PredictIdx) = Len(test_queries)
               /\ ~raised
        /\ pc = "tm_predict" => i = Cardinality(PredictIdx) + 1

\* C9 witness: test_model returned after the first and second prompts failed
\* and the third was still sent
C9_Witness ==
    /\ script = 2
    /\ pc = "done"
    /\ Cardinality(PredictIdx) = 3
    /\ \E k \in PredictIdx : Rank(k) = 1 /\ Failed(k)
    /\ \E k \in PredictIdx : Rank(k) = 2 /\ Failed(k)
    /\ \E k \in PredictIdx : Rank(k) = 3 /\ Returned(k)

\* C10 as stated: when the endpoint has been created but the smoke test
\* fails, the run reports no deployment failure and issues no delete call;
\* when the endpoint has been deleted but the configuration deletion fails,
\* the run prints no error and issues no deploy call; no run that issues a
\* deploy call issues a delete call
C10_SilentPartialFailure ==
    /\ \A k \in Idx :
           (Is(k, "deploy") /\ Returned(k)
               /\ \E j \in Idx : Is(j, "predict") /\ Failed(j)) =>
               ~Printed("deployment_failed")
    /\ \A k \in Idx :
           (Is(k, "delete_endpoint_config") /\ Failed(k)) =>
               /\ ~Printed("error_deleting")
               /\ ~Called("deploy")
    /\ Called("deploy") =>
           ~Called("delete_endpoint") /\ ~Called("delete_endpoint_config")

====
